---- MODULE Spec2Model ----
(***************************************************************************)
(* Model of synth.py, the synthesis script of nodejs-logging.  The script  *)
(* is a straight line of calls: generate the v2 library, copy it into the  *)
(* working tree with three excludes, patch a relative path in three client *)
(* modules, copy the common templates, then run two npm commands.          *)
(*                                                                         *)
(* File contents are sequences of one-character strings, file trees are    *)
(* functions from relative paths to contents.  s.copy and s.replace are    *)
(* the synthtool transforms the script calls: copy overwrites every source *)
(* file that is not excluded; replace compiles its second argument as a    *)
(* regular expression (re.MULTILINE) and substitutes it in every listed    *)
(* path that has a file.  What the call does with a listed path that has   *)
(* no file is not in synth.py: the model has both outcomes, the call that  *)
(* passes over the path and the call that raises.                          *)
(***************************************************************************)
EXTENDS Naturals, Sequences, FiniteSets

VARIABLES
    pc,          \* the call the script is about to make, or "done" / "aborted"
    v2_library,  \* line 26: the generated file set (empty before the call)
    templates,   \* line 45: the rendered template file set (empty before the call)
    tree,        \* the working tree the script runs in (the destination)
    exits,       \* return codes of the npm commands launched in this run
    failed,      \* the call whose exception ended the run, or "none"
    log,         \* history: the calls made in this run, in order
    pre,         \* history: the working tree when this run started
    before33,    \* history: the working tree when line 33 was reached in this run
    after46,     \* history: the working tree after line 46, one entry per run
    run,         \* which invocation of the script this is
    upstream,    \* environment: what the generator produces for this configuration
    bundle,      \* environment: what the common templates render
    versions     \* a text and its successive images under replace (SpecReplace)

vars == <<pc, v2_library, templates, tree, exits, failed, log, pre, before33,
          after46, run, upstream, bundle, versions>>

(***************************************************************************)
(* Bounds of the model.                                                    *)
(***************************************************************************)
MaxRuns == 2

MaxNpmPaths == 2

MaxChunks == 4

MaxPasses == 2

(***************************************************************************)
(* The literals of the script.                                             *)
(***************************************************************************)
Excludes == {"src/index.js", "README.md", "package.json"}

ReplaceSources ==
    << "src/v2/config_service_v2_client.js",
       "src/v2/logging_service_v2_client.js",
       "src/v2/metrics_service_v2_client.js" >>

Before ==
    << ".", ".", "/", ".", ".", "/",
       "p", "a", "c", "k", "a", "g", "e", ".", "j", "s", "o", "n" >>

\* the replacement written like the search text
AfterUnchanged == Before

After ==
    << ".", ".", "/", ".", ".", "/", ".", ".", "/",
       "p", "a", "c", "k", "a", "g", "e", ".", "j", "s", "o", "n" >>

CallOrder ==
    << "node_library", "copy", "replace", "templates", "copy_templates",
       "npm_install", "npm_run_fix" >>

(***************************************************************************)
(* Sequences and file trees.                                               *)
(***************************************************************************)
Range(s) == {s[i] : i \in 1..Len(s)}

IsPrefix(s, t) == Len(s) <= Len(t) /\ \A i \in 1..Len(s) : s[i] = t[i]

EmptyTree == [p \in {} |-> <<>>]

\* the number of places where the literal text lit occurs in s
Occurrences(lit, s) ==
    Cardinality({i \in 1..Len(s) :
        /\ i + Len(lit) - 1 <= Len(s)
        /\ \A k \in 1..Len(lit) : s[i + k - 1] = lit[k]})

Uniform(paths, text) == [p \in paths |-> text]

Overlay(base, new) ==
    [p \in DOMAIN base \cup DOMAIN new |->
        IF p \in DOMAIN new THEN new[p] ELSE base[p]]

\* a copy that ignores its excludes
CopyFilesAll(dest, sources, excludes) == Overlay(dest, sources)

\* a copy that matches its excludes by file name, so that src/v2/index.js is
\* taken for the excluded src/index.js
CopyFilesByName(dest, sources, excludes) ==
    Overlay(dest, [p \in (DOMAIN sources \ excludes) \ {"src/v2/index.js"} |-> sources[p]])

\* a copy that leaves the files the destination already has
CopyFilesKeepExisting(dest, sources, excludes) ==
    Overlay(dest, [p \in (DOMAIN sources \ excludes) \ DOMAIN dest |-> sources[p]])

(***************************************************************************)
(* s.copy(sources, excludes): every file of the source set that is not     *)
(* excluded is written to the same relative path of the working tree,      *)
(* over whatever is there; nothing else is touched.                        *)
(***************************************************************************)
CopyFiles(dest, sources, excludes) ==
    Overlay(dest, [p \in DOMAIN sources \ excludes |-> sources[p]])

(***************************************************************************)
(* s.replace(sources, before, after): before is a regular expression.  In  *)
(* "../../package.json" the only metacharacter is the dot, which matches   *)
(* any character but a newline; every other character matches itself.      *)
(***************************************************************************)
CharMatches(e, c) == IF e = "." THEN c # "\n" ELSE e = c

MatchAt(expr, s, i) ==
    /\ i + Len(expr) - 1 <= Len(s)
    /\ \A k \in 1..Len(expr) : CharMatches(expr[k], s[i + k - 1])

\* expr.subn(repl, s) from position i: the scan finds the leftmost match at
\* or after i, copies the text before it, writes repl, and goes on after the
\* match (matches do not overlap)
RECURSIVE SubnFrom(_, _, _, _)
SubnFrom(expr, repl, s, i) ==
    LET starts == {j \in i..Len(s) : MatchAt(expr, s, j)}
    IN  IF starts = {} THEN [text |-> SubSeq(s, i, Len(s)), count |-> 0]
        ELSE LET j == CHOOSE m \in starts : \A k \in starts : m <= k
                 r == SubnFrom(expr, repl, s, j + Len(expr))
             IN  [text |-> SubSeq(s, i, j - 1) \o repl \o r.text,
                  count |-> r.count + 1]

\* a substitution of the first match only (count=1)
SubnFirstOnly(expr, repl, s) ==
    LET starts == {i \in 1..Len(s) : MatchAt(expr, s, i)}
    IN  IF starts = {} THEN [text |-> s, count |-> 0]
        ELSE LET i == CHOOSE j \in starts : \A k \in starts : j <= k
             IN  [text |-> SubSeq(s, 1, i - 1) \o repl
                              \o SubSeq(s, i + Len(expr), Len(s)),
                  count |-> 1]

Subn(expr, repl, s) == SubnFrom(expr, repl, s, 1)

\* an expansion that yields every file of the tree
ExpandPathsAll(t, sources) == DOMAIN t

\* the listed paths that have a file: the files the substitution is made in
ExpandPaths(t, sources) == {p \in Range(sources) : p \in DOMAIN t}

\* the index of the first listed path that has no file, 0 when all have one
FirstMissing(t, sources) ==
    LET missing == {i \in 1..Len(sources) : sources[i] \notin DOMAIN t}
    IN  IF missing = {} THEN 0
        ELSE CHOOSE i \in missing : \A k \in missing : i <= k

ReplaceInFiles(t, sources, before, after) ==
    [p \in DOMAIN t |->
        IF p \in ExpandPaths(t, sources)
        THEN Subn(before, after, t[p]).text
        ELSE t[p]]

(***************************************************************************)
(* The environment: the files the generator and the template renderer      *)
(* produce, the working tree the script starts in, and what an npm command *)
(* may do.                                                                 *)
(***************************************************************************)
GeneratedPaths ==
    Range(ReplaceSources) \cup Excludes \cup {"src/v2/index.js"}

Paths == GeneratedPaths \cup {".eslintrc.yml"}

\* a generated module that refers to ../../package.json twice, and one that
\* does not refer to it
GeneratedTexts == { <<"g">> \o Before \o <<"\n">> \o Before, <<"g">> }

\* a template whose text the expression matches though the literal is not in it
TemplateText ==
    << "t", "t", "/", "t", "t", "/",
       "p", "a", "c", "k", "a", "g", "e", "-", "j", "s", "o", "n" >>

\* what an earlier synthesis left (already patched), or a hand-written file
TreeTexts == { <<"o">> \o After, <<"o">> }

NpmText == <<"n">>

\* the generator's output: every generated path, or all but one of them
GeneratedPathSets == {GeneratedPaths} \cup {GeneratedPaths \ {p} : p \in GeneratedPaths}

UpstreamCases ==
    {[ok |-> TRUE, files |-> Uniform(S, c)] : S \in GeneratedPathSets, c \in GeneratedTexts}
    \cup {[ok |-> FALSE, files |-> EmptyTree]}

BundleCases == {EmptyTree} \cup {Uniform({p}, TemplateText) : p \in Paths}

InitialTrees == {EmptyTree} \cup {Uniform(Paths, c) : c \in TreeTexts}

NpmCandidates ==
    << "src/index.js", "src/v2/config_service_v2_client.js", "package.json",
       "src/v2/index.js", "README.md" >>

NpmWritable == {NpmCandidates[i] : i \in 1..MaxNpmPaths} \cap Paths

\* the working trees an npm command may leave behind
NpmEffects(t) == {t} \cup {Overlay(t, Uniform({p}, NpmText)) : p \in NpmWritable}

ExitCodes == {0, 1}

(***************************************************************************)
(* The script.                                                             *)
(***************************************************************************)
Init ==
    /\ pc = "node_library"
    /\ v2_library = EmptyTree
    /\ templates = EmptyTree
    /\ tree \in InitialTrees
    /\ exits = <<>>
    /\ failed = "none"
    /\ log = <<>>
    /\ pre = tree
    /\ before33 = EmptyTree
    /\ after46 = <<>>
    /\ run = 1
    /\ upstream \in UpstreamCases
    /\ bundle \in BundleCases
    /\ versions = <<>>

\* a generation whose failure is swallowed: the script goes on with no files
GenerateSwallowed ==
    /\ pc = "node_library"
    /\ log' = Append(log, "node_library")
    /\ v2_library' = upstream.files
    /\ pc' = "copy"
    /\ UNCHANGED <<templates, tree, exits, failed, pre, before33, after46, run,
                   upstream, bundle, versions>>

\* lines 24-31: gapic.node_library raises when the configuration is missing
\* or the generator fails; nothing catches it
Generate ==
    /\ pc = "node_library"
    /\ log' = Append(log, "node_library")
    /\ IF upstream.ok
       THEN /\ v2_library' = upstream.files
            /\ pc' = "copy"
            /\ failed' = failed
       ELSE /\ v2_library' = v2_library
            /\ pc' = "aborted"
            /\ failed' = "node_library"
    /\ UNCHANGED <<templates, tree, exits, pre, before33, after46, run, upstream, bundle, versions>>

\* a copy after which the script goes straight to the templates
CopyThenTemplates ==
    /\ pc = "copy"
    /\ log' = Append(log, "copy")
    /\ tree' = CopyFiles(tree, v2_library, Excludes)
    /\ pc' = "templates"
    /\ UNCHANGED <<v2_library, templates, exits, failed, pre, before33, after46, run,
                   upstream, bundle, versions>>

\* line 32
Copy ==
    /\ pc = "copy"
    /\ log' = Append(log, "copy")
    /\ tree' = CopyFiles(tree, v2_library, Excludes)
    /\ pc' = "replace"
    /\ UNCHANGED <<v2_library, templates, exits, failed, pre, before33, after46, run,
                   upstream, bundle, versions>>

\* lines 33-41, the call returns: the substitution is made in every listed
\* path that has a file, and the script goes on.  synth.py does not test that
\* the three paths exist; when one does not, whether the call returns (the
\* paths are expanded as globs, and a path with no file yields nothing) or
\* raises (ReplaceFileNotFound) is decided inside s.replace, so both are steps
\* of the model.
Replace ==
    /\ pc = "replace"
    /\ log' = Append(log, "replace")
    /\ tree' = ReplaceInFiles(tree, ReplaceSources, Before, After)
    /\ before33' = tree
    /\ pc' = "templates"
    /\ UNCHANGED <<v2_library, templates, exits, failed, pre, after46, run,
                   upstream, bundle, versions>>

\* lines 33-41, the call raises: the paths are opened in order, the ones
\* before the first path with no file are patched, and the file-not-found
\* error ends the run, since nothing catches it
ReplaceFileNotFound ==
    /\ pc = "replace"
    /\ FirstMissing(tree, ReplaceSources) # 0
    /\ log' = Append(log, "replace")
    /\ tree' = ReplaceInFiles(tree,
                   SubSeq(ReplaceSources, 1, FirstMissing(tree, ReplaceSources) - 1),
                   Before, After)
    /\ before33' = tree
    /\ pc' = "aborted"
    /\ failed' = "replace"
    /\ UNCHANGED <<v2_library, templates, exits, pre, after46, run,
                   upstream, bundle, versions>>

\* lines 44-45
Templates ==
    /\ pc = "templates"
    /\ log' = Append(log, "templates")
    /\ templates' = bundle
    /\ pc' = "copy_templates"
    /\ UNCHANGED <<v2_library, tree, exits, failed, pre, before33, after46, run,
                   upstream, bundle, versions>>

\* line 46
CopyTemplates ==
    /\ pc = "copy_templates"
    /\ log' = Append(log, "copy_templates")
    /\ tree' = CopyFiles(tree, templates, {})
    /\ after46' = Append(after46, tree')
    /\ pc' = "npm_install"
    /\ UNCHANGED <<v2_library, templates, exits, failed, pre, before33, run,
                   upstream, bundle, versions>>

\* subprocess.run(argv, check=True): a non-zero return code raises
NpmInstallChecked ==
    /\ pc = "npm_install"
    /\ log' = Append(log, "npm_install")
    /\ \/ /\ pc' = "aborted"
          /\ failed' = "npm_install"
          /\ UNCHANGED <<tree, exits>>
       \/ \E rc \in ExitCodes, t \in NpmEffects(tree) :
          /\ exits' = Append(exits, rc)
          /\ tree' = t
          /\ pc' = IF rc = 0 THEN "npm_run_fix" ELSE "aborted"
          /\ failed' = IF rc = 0 THEN failed ELSE "npm_install"
    /\ UNCHANGED <<v2_library, templates, pre, before33, after46, run, upstream,
                   bundle, versions>>

\* line 49: subprocess.run(argv) without check raises an OSError when the
\* command cannot be started; otherwise the return code is returned and dropped
NpmInstall ==
    /\ pc = "npm_install"
    /\ log' = Append(log, "npm_install")
    /\ \/ /\ pc' = "aborted"
          /\ failed' = "npm_install"
          /\ UNCHANGED <<tree, exits>>
       \/ \E rc \in ExitCodes, t \in NpmEffects(tree) :
          /\ exits' = Append(exits, rc)
          /\ tree' = t
          /\ pc' = "npm_run_fix"
          /\ failed' = failed
    /\ UNCHANGED <<v2_library, templates, pre, before33, after46, run, upstream, bundle, versions>>

\* line 50
NpmRunFix ==
    /\ pc = "npm_run_fix"
    /\ log' = Append(log, "npm_run_fix")
    /\ \/ /\ pc' = "aborted"
          /\ failed' = "npm_run_fix"
          /\ UNCHANGED <<tree, exits>>
       \/ \E rc \in ExitCodes, t \in NpmEffects(tree) :
          /\ exits' = Append(exits, rc)
          /\ tree' = t
          /\ pc' = "done"
          /\ failed' = failed
    /\ UNCHANGED <<v2_library, templates, pre, before33, after46, run, upstream, bundle, versions>>

\* the script is run again on the tree it left, with the same upstream
Rerun ==
    /\ pc = "done"
    /\ run < MaxRuns
    /\ run' = run + 1
    /\ pc' = "node_library"
    /\ v2_library' = EmptyTree
    /\ templates' = EmptyTree
    /\ exits' = <<>>
    /\ log' = <<>>
    /\ pre' = tree
    /\ before33' = EmptyTree
    /\ UNCHANGED <<tree, failed, after46, upstream, bundle, versions>>

Next ==
    \/ Generate
    \/ Copy
    \/ Replace
    \/ ReplaceFileNotFound
    \/ Templates
    \/ CopyTemplates
    \/ NpmInstall
    \/ NpmRunFix
    \/ Rerun

Spec == Init /\ [][Next]_vars

(***************************************************************************)
(* replace alone: a text drawn from short concatenations of chunks, and    *)
(* the substitution of lines 33-41 applied to it pass after pass.          *)
(***************************************************************************)
Chunks ==
    { Before,
      <<".", ".", "/">>,
      <<"x", "x", "/">>,
      <<"p", "a", "c", "k", "a", "g", "e", ".", "j", "s", "o", "n">>,
      <<"/">>,
      <<"x">>,
      <<"\n">> }

RECURSIVE Flatten(_)
Flatten(ss) == IF ss = <<>> THEN <<>> ELSE Head(ss) \o Flatten(Tail(ss))

Texts == {Flatten(ss) : ss \in UNION {[1..n -> Chunks] : n \in 0..MaxChunks}}

InitReplace ==
    /\ pc = "idle"
    /\ v2_library = EmptyTree
    /\ templates = EmptyTree
    /\ tree = EmptyTree
    /\ exits = <<>>
    /\ failed = "none"
    /\ log = <<>>
    /\ pre = EmptyTree
    /\ before33 = EmptyTree
    /\ after46 = <<>>
    /\ run = 1
    /\ upstream = [ok |-> FALSE, files |-> EmptyTree]
    /\ bundle = EmptyTree
    /\ versions \in {<<f>> : f \in Texts}

\* one more pass of the substitution over the latest version of the text
ReplacePass ==
    /\ pc = "idle"
    /\ Len(versions) <= MaxPasses
    /\ versions' = Append(versions, Subn(Before, After, versions[Len(versions)]).text)
    /\ UNCHANGED <<pc, v2_library, templates, tree, exits, failed, log, pre,
                   before33, after46, run, upstream, bundle>>

NextReplace == ReplacePass

SpecReplace == InitReplace /\ [][NextReplace]_vars

(***************************************************************************)
(* Properties.                                                             *)
(***************************************************************************)
Targets == Range(ReplaceSources)

\* path p is the same in trees a and b: absent from both, or the same text
Same(a, b, p) ==
    /\ (p \in DOMAIN a) <=> (p \in DOMAIN b)
    /\ p \in DOMAIN a => a[p] = b[p]

Patched(text) == Subn(Before, After, text).text

\* the run is done and its two npm commands changed no file
DoneUntouchedByNpm == pc = "done" /\ Len(after46) = run /\ tree = after46[run]

\* C1: in every run the calls are made at most once each and in the order
\* of the script: the calls made so far are a prefix of the seven calls, the
\* call about to be made is the one after that prefix, and a run that is
\* done has made all seven.
C1_StepOrder ==
    /\ IsPrefix(log, CallOrder)
    /\ pc \notin {"done", "aborted"} =>
          /\ Len(log) < Len(CallOrder)
          /\ pc = CallOrder[Len(log) + 1]
    /\ pc = "done" => log = CallOrder

C1_Witness == pc = "done" /\ log = CallOrder /\ run = MaxRuns

\* C2 as stated: after a complete run every generated file that is excluded
\* has the content it had before the run (here for the runs whose npm
\* commands change no file, where only the script itself writes the tree).
C2_Original ==
    DoneUntouchedByNpm =>
        \A p \in Excludes \cap DOMAIN v2_library : Same(tree, pre, p)

\* C2 as amended: an excluded generated file is left alone by the copy of the
\* generated files and by the patch; once the templates are copied it holds
\* the template's text if the template set has the same path, and its text
\* from before the run otherwise.
C2_ExcludedUntilTemplates ==
    \A p \in Excludes \cap DOMAIN v2_library :
        /\ pc \in {"replace", "templates", "copy_templates"} => Same(tree, pre, p)
        /\ pc = "npm_install" =>
              IF p \in DOMAIN templates
              THEN p \in DOMAIN tree /\ tree[p] = templates[p]
              ELSE Same(tree, pre, p)

C2_Witness ==
    /\ pc = "npm_install"
    /\ \E p \in Excludes \cap DOMAIN v2_library :
        /\ p \in DOMAIN pre
        /\ p \notin DOMAIN templates
        /\ pre[p] # v2_library[p]
        /\ tree[p] = pre[p]

\* C3 as stated: after the run every generated file that is not excluded is
\* in the working tree with the generated content (here for the runs whose
\* npm commands change no file).
C3_Original ==
    DoneUntouchedByNpm =>
        \A p \in DOMAIN v2_library \ Excludes :
            p \in DOMAIN tree /\ tree[p] = v2_library[p]

\* C3 as amended: right after the copy every generated file that is not
\* excluded is in the tree with the generated content; once the templates
\* are copied it holds the template's text if the template set has the same
\* path, else the generated text with every match replaced if it is one of
\* the three patched modules, else the generated text.
C3_Included ==
    \A p \in DOMAIN v2_library \ Excludes :
        /\ pc = "replace" => p \in DOMAIN tree /\ tree[p] = v2_library[p]
        /\ pc = "npm_install" =>
              /\ p \in DOMAIN tree
              /\ tree[p] = IF p \in DOMAIN templates THEN templates[p]
                           ELSE IF p \in Targets THEN Patched(v2_library[p])
                           ELSE v2_library[p]

C3_Witness ==
    /\ pc = "npm_install"
    /\ \E p \in DOMAIN v2_library \ (Excludes \cup Targets) :
        /\ p \in DOMAIN pre
        /\ pre[p] # v2_library[p]
        /\ tree[p] = v2_library[p]
        /\ Occurrences(Before, tree[p]) > 0

\* C4 as stated: after the run no patched module holds the literal
\* ../../package.json, and it holds ../../../package.json at least as often
\* as it held ../../package.json before the patch (here for the runs whose
\* npm commands change no file).
C4_Original ==
    DoneUntouchedByNpm =>
        \A p \in Targets \cap DOMAIN tree \cap DOMAIN before33 :
            /\ Occurrences(Before, tree[p]) = 0
            /\ Occurrences(After, tree[p]) >= Occurrences(Before, before33[p])

\* C4 as amended: right after the patch a patched module holds
\* ../../../package.json at least as often as it held ../../package.json
\* before; the literal ../../package.json is still there as often as before
\* or more, and each of its occurrences is the end of an occurrence of
\* ../../../package.json.
C4_PatchStep ==
    pc = "templates" =>
        \A p \in Targets \cap DOMAIN before33 :
            /\ p \in DOMAIN tree
            /\ Occurrences(After, tree[p]) >= Occurrences(Before, before33[p])
            /\ Occurrences(Before, tree[p]) = Occurrences(After, tree[p])
            /\ Occurrences(Before, tree[p]) >= Occurrences(Before, before33[p])

C4_Witness ==
    /\ pc = "templates"
    /\ \E p \in Targets \cap DOMAIN tree :
        /\ Occurrences(Before, before33[p]) = 2
        /\ Occurrences(After, before33[p]) = 0
        /\ Occurrences(After, tree[p]) = 2

\* C5 as stated: a second pass of the replace leaves an already patched
\* text unchanged.
C5_Original == Len(versions) >= 3 => versions[3] = versions[2]

\* C5 as amended: replace(replace(f)) = replace(f) exactly when nothing in f
\* matches the search expression; when n >= 1 places match, the second pass
\* finds the search text again in each replacement and puts one more ../
\* before each, so the text grows by 3n characters.
C5_SecondPass ==
    Len(versions) >= 3 =>
        LET n == Subn(Before, After, versions[1]).count
        IN  /\ n = 0 => versions[2] = versions[1] /\ versions[3] = versions[2]
            /\ n > 0 =>
                  /\ versions[3] # versions[2]
                  /\ Len(versions[2]) = Len(versions[1]) + 3 * n
                  /\ Len(versions[3]) = Len(versions[2]) + 3 * n
                  /\ Occurrences(After, versions[2]) = n
                  /\ Occurrences(After, versions[3]) = n

C5_Witness ==
    /\ Len(versions) >= 3
    /\ Occurrences(Before, versions[1]) = 2
    /\ Len(versions[3]) = Len(versions[1]) + 12

\* C6 as stated: the tree after a second run, with the generator and the
\* templates producing the same files, is the tree after the first run (here
\* for the runs whose npm commands change no file, the first time and the
\* second).
C6_Original ==
    (DoneUntouchedByNpm /\ run >= 2 /\ pre = after46[run - 1]) => tree = pre

\* C6 as amended: when the templates have been copied in a second run, every
\* path the run writes again (a generated path that is not excluded, a
\* template path) is as it was at the same point of the run before; any
\* other path holds what the run before, its npm commands included, left
\* there, with one more ../ before each match if it is one of the three
\* patched modules.
C6_SecondRun ==
    (run >= 2 /\ Len(after46) = run) =>
        \A p \in Paths :
            IF p \in (DOMAIN upstream.files \ Excludes) \cup DOMAIN bundle
            THEN Same(after46[run - 1], after46[run], p)
            ELSE /\ (p \in DOMAIN after46[run]) <=> (p \in DOMAIN pre)
                 /\ p \in DOMAIN pre =>
                       after46[run][p] =
                           IF p \in Targets THEN Patched(pre[p]) ELSE pre[p]

C6_Witness ==
    /\ run = 2
    /\ pc = "npm_install"
    /\ after46[1] = after46[2]
    /\ pre # after46[1]
    /\ \E p \in Targets \cap DOMAIN tree : Occurrences(After, tree[p]) = 2

\* C7: when the configuration is missing the generation fails, the run is
\* over, and nothing else has happened: the working tree is as it was, no
\* other call was made, no template was rendered, no command was run.
C7_MissingConfig ==
    /\ (~upstream.ok /\ pc # "node_library") => failed = "node_library"
    /\ failed = "node_library" =>
          /\ pc = "aborted"
          /\ tree = pre
          /\ log = <<"node_library">>
          /\ v2_library = EmptyTree
          /\ templates = EmptyTree
          /\ exits = <<>>

C7_Witness ==
    /\ failed = "node_library"
    /\ pc = "aborted"
    /\ ~upstream.ok
    /\ tree # EmptyTree

C9_Original == "copy_templates" \in Range(log) => pc # "aborted"

\* C9 as amended: a command that was started never stops the script,
\* whatever its return code: after npm install returns, npm run fix is the
\* next call, and after it returns the run is done, with the seven calls made
\* once each in order.  Only a command that cannot be started (an OSError,
\* no return code) ends the run, and then the later command is not run.
C9_PostProcess ==
    /\ pc = "done" => log = CallOrder /\ Len(exits) = 2
    /\ (Len(exits) = 1 /\ pc # "aborted") =>
          pc = "npm_run_fix" /\ log = SubSeq(CallOrder, 1, 6)
    /\ failed = "npm_install" =>
          pc = "aborted" /\ exits = <<>> /\ log = SubSeq(CallOrder, 1, 6)
    /\ failed = "npm_run_fix" =>
          pc = "aborted" /\ Len(exits) = 1 /\ log = CallOrder

C9_Witness == pc = "done" /\ exits = <<1, 1>> /\ log = CallOrder

\* C10: the patch changes nothing but the three listed modules: every other
\* file of the tree has the text it had when the patch started, and the tree
\* has the same files.
C10_PatchFrame ==
    pc = "templates" =>
        /\ DOMAIN tree = DOMAIN before33
        /\ \A p \in DOMAIN tree \ Targets : tree[p] = before33[p]

C10_Witness ==
    /\ pc = "templates"
    /\ \E p \in DOMAIN tree \ Targets, q \in Targets \cap DOMAIN tree :
        /\ Occurrences(Before, tree[p]) > 0
        /\ Occurrences(After, tree[p]) = 0
        /\ tree[q] # before33[q]
    /\ \E e \in Excludes \cap DOMAIN tree : Occurrences(Before, tree[e]) > 0

====
